---- MODULE Spec2Model ----
(***************************************************************************)
(* Model of project1/travel-guide-notebook.ipynb: the travel guide         *)
(* generator.  Three routines carry the logic:                             *)
(*   scrape_destination_info  (the extractor),                             *)
(*   generate_guide           (model call, JSON decode, key check),        *)
(*   format_guide             (the renderer),                              *)
(* driven by create_travel_guide.                                          *)
(*                                                                         *)
(* Text handled by the extractor is a sequence of one-character strings,   *)
(* so that str.lower, str.strip, str.join and the substring test `in` are  *)
(* computed character by character.  Text handled by the renderer is a     *)
(* TLA+ string, concatenated as the f-strings concatenate it.              *)
(***************************************************************************)
EXTENDS Integers, Sequences, FiniteSets, TLC

VARIABLES
    soup,             \* scrape: outcome of requests.get + BeautifulSoup (input)
    spc,              \* scrape: position in scrape_destination_info
    info,             \* scrape: the five-bucket dictionary
    headings,         \* scrape: content.find_all(['h2','h3']), as locations
    hidx,             \* scrape: index of the next heading of the for loop
    current_section,  \* scrape: the section pointer
    scraped,          \* scrape: the value returned
    heading_in,       \* heading match: the heading text under test (input)
    guide_data,       \* render / pipeline: the decoded guide
    destination,      \* render / pipeline: the destination name
    formatted,        \* render / pipeline: outcome of format_guide
    pc,               \* pipeline: position in create_travel_guide
    content,          \* pipeline: value returned by scrape_destination_info
    model_response,   \* pipeline: what the chat completion call produced
    trace             \* pipeline: calls made and lines printed, in order

vars == << soup, spc, info, headings, hidx, current_section, scraped,
           heading_in, guide_data, destination, formatted, pc, content,
           model_response, trace >>

scrapeVars == << soup, spc, info, headings, hidx, current_section, scraped >>
renderVars == << guide_data, destination, formatted >>
pipeVars   == << pc, content, model_response, trace >>

(***************************************************************************)
(* Bounds of the model.                                                    *)
(***************************************************************************)
MaxNodes == 4      \* child nodes of the content container
MaxWords == 2      \* words of a heading text under test
MaxLen   == 2      \* elements of a JSON list / entries of a JSON mapping

\* Python's None, wherever a variable is compared with records.
None == [kind |-> "None"]

(***************************************************************************)
(* Character text: str.lower, str.strip, `in`, str.join.  The characters   *)
(* are those of U+0001..U+00FF, and U+1680: the letters with a lower case  *)
(* are A-Z and the thirty of U+00C0..U+00DE; the whitespace of the         *)
(* characters above U+00FF (U+2000..U+200A, U+2028, U+2029, U+202F,        *)
(* U+205F, U+3000) and the letters above U+00FF are not in the model.      *)
(***************************************************************************)
UpperChars == << "A","B","C","D","E","F","G","H","I","J","K","L","M",
                 "N","O","P","Q","R","S","T","U","V","W","X","Y","Z",
                 "À","Á","Â","Ã","Ä","Å","Æ","Ç","È","É","Ê","Ë","Ì",
                 "Í","Î","Ï","Ð","Ñ","Ò","Ó","Ô","Õ","Ö","Ø","Ù","Ú",
                 "Û","Ü","Ý","Þ" >>
LowerChars == << "a","b","c","d","e","f","g","h","i","j","k","l","m",
                 "n","o","p","q","r","s","t","u","v","w","x","y","z",
                 "à","á","â","ã","ä","å","æ","ç","è","é","ê","ë","ì",
                 "í","î","ï","ð","ñ","ò","ó","ô","õ","ö","ø","ù","ú",
                 "û","ü","ý","þ" >>

\* the lower case of every letter that has one
LowerOf ==
    [c \in {UpperChars[i] : i \in 1..Len(UpperChars)} |->
        LowerChars[CHOOSE i \in 1..Len(UpperChars) : UpperChars[i] = c]]

LowerChar(c) == IF c \in DOMAIN LowerOf THEN LowerOf[c] ELSE c

\* str.lower()
Lower(s) == [i \in 1..Len(s) |-> LowerChar(s[i])]

\* the whitespace characters that have no escape in a string: U+000B,
\* U+001C, U+001D, U+001E, U+001F, U+0085, U+00A0 (what &nbsp; gives), U+1680
VT    == ""
FS    == ""
GS    == ""
RS    == ""
US    == ""
NEL   == ""
NBSP  == " "
OGHAM == " "

\* the characters for which str.isspace() holds
Whitespace == {" ", "\n", "\t", "\r", "\f", VT, FS, GS, RS, US, NEL, NBSP, OGHAM}

\* str.strip(): drop leading and trailing whitespace
Strip(s) ==
    LET keep == {i \in 1..Len(s) : s[i] \notin Whitespace}
    IN  IF keep = {} THEN << >>
        ELSE LET lo == CHOOSE i \in keep : \A j \in keep : i <= j
                 hi == CHOOSE i \in keep : \A j \in keep : j <= i
             IN  SubSeq(s, lo, hi)

\* `sub in s` for strings
Contains(sub, s) ==
    \E i \in 1..(Len(s) - Len(sub) + 1) : SubSeq(s, i, i + Len(sub) - 1) = sub

RECURSIVE Join(_, _)
\* sep.join(parts)
Join(sep, parts) ==
    IF parts = << >> THEN << >>
    ELSE IF Len(parts) = 1 THEN parts[1]
    ELSE parts[1] \o sep \o Join(sep, Tail(parts))

Space == << " " >>

(***************************************************************************)
(* The parsed page.  The content container is a sequence of child nodes;   *)
(* a node is a tag with a name, its text and its own child tags (one level *)
(* of nesting).  A location is <<i, 0>> for the i-th child of the          *)
(* container and <<i, j>> for the j-th child of that child.                *)
(***************************************************************************)
NoLoc == << 0, 0 >>

Tag(name, text) == [name |-> name, text |-> text, kids |-> << >>]
Div(kids)       == [name |-> "div", text |-> << >>, kids |-> kids]

NodeAt(page, loc) ==
    IF loc[2] = 0 THEN page[loc[1]] ELSE page[loc[1]].kids[loc[2]]

RECURSIVE DocOrderFrom(_, _)
\* every tag under the container, in document order
DocOrderFrom(page, i) ==
    IF i > Len(page) THEN << >>
    ELSE << << i, 0 >> >>
         \o [j \in 1..Len(page[i].kids) |-> << i, j >>]
         \o DocOrderFrom(page, i + 1)

DocOrder(page) == DocOrderFrom(page, 1)

\* content.find_all(names)
FindAll(page, names) ==
    SelectSeq(DocOrder(page), LAMBDA loc : NodeAt(page, loc).name \in names)

\* content.find(name): the first match in document order, or None
Find(page, name) ==
    LET all == FindAll(page, {name})
    IN  IF all = << >> THEN NoLoc ELSE all[1]

\* tag.find_next_sibling(): the next tag with the same parent, or None
FindNextSibling(page, loc) ==
    IF loc[2] = 0
    THEN IF loc[1] < Len(page) THEN << loc[1] + 1, 0 >> ELSE NoLoc
    ELSE IF loc[2] < Len(page[loc[1]].kids)
         THEN << loc[1], loc[2] + 1 >> ELSE NoLoc

(***************************************************************************)
(* scrape_destination_info                                                 *)
(***************************************************************************)
InfoKeys == {"overview", "attractions", "transportation", "food", "tips"}

\* the section pointer before any heading has matched (Python None)
NoSection == "None"

\* info = {'overview': '', 'attractions': '', ...}
InitInfo == [k \in InfoKeys |-> << >>]

kw_see        == << "s","e","e" >>
kw_sight      == << "s","i","g","h","t" >>
kw_get_around == << "g","e","t"," ","a","r","o","u","n","d" >>
kw_transport  == << "t","r","a","n","s","p","o","r","t" >>
kw_eat        == << "e","a","t" >>
kw_food       == << "f","o","o","d" >>
kw_understand == << "u","n","d","e","r","s","t","a","n","d" >>
kw_tips       == << "t","i","p","s" >>

\* A mutant of MapHeading: the eat/food test is made before the see/sight test.
MapHeadingFoodFirst(current, text) ==
    LET heading_text == Lower(text)
    IN  IF Contains(kw_eat, heading_text) \/ Contains(kw_food, heading_text)
        THEN "food"
        ELSE IF Contains(kw_see, heading_text) \/ Contains(kw_sight, heading_text)
        THEN "attractions"
        ELSE IF Contains(kw_get_around, heading_text)
                \/ Contains(kw_transport, heading_text)
        THEN "transportation"
        ELSE IF Contains(kw_understand, heading_text)
                \/ Contains(kw_tips, heading_text)
        THEN "tips"
        ELSE current

\* A mutant of MapHeading: a heading that matches nothing clears the pointer.
MapHeadingReset(current, text) ==
    LET heading_text == Lower(text)
    IN  IF Contains(kw_see, heading_text) \/ Contains(kw_sight, heading_text)
        THEN "attractions"
        ELSE IF Contains(kw_get_around, heading_text)
                \/ Contains(kw_transport, heading_text)
        THEN "transportation"
        ELSE IF Contains(kw_eat, heading_text) \/ Contains(kw_food, heading_text)
        THEN "food"
        ELSE IF Contains(kw_understand, heading_text)
                \/ Contains(kw_tips, heading_text)
        THEN "tips"
        ELSE NoSection

\* The if/elif chain that maps a heading to a section: the section pointer
\* after a heading with the given text, the pointer being `current` before.
MapHeading(current, text) ==
    LET heading_text == Lower(text)
    IN  IF Contains(kw_see, heading_text) \/ Contains(kw_sight, heading_text)
        THEN "attractions"
        ELSE IF Contains(kw_get_around, heading_text)
                \/ Contains(kw_transport, heading_text)
        THEN "transportation"
        ELSE IF Contains(kw_eat, heading_text) \/ Contains(kw_food, heading_text)
        THEN "food"
        ELSE IF Contains(kw_understand, heading_text)
                \/ Contains(kw_tips, heading_text)
        THEN "tips"
        ELSE current

RECURSIVE IntroWalk(_, _)
\* the while loop of the overview: paragraphs from `cur` on, until a sibling
\* that is not a paragraph (or no sibling)
IntroWalk(page, cur) ==
    IF cur # NoLoc /\ NodeAt(page, cur).name = "p"
    THEN << Strip(NodeAt(page, cur).text) >>
         \o IntroWalk(page, FindNextSibling(page, cur))
    ELSE << >>

RECURSIVE IntroWalkToHeading(_, _)
\* A mutant of IntroParas: the walk skips other tags and stops at a heading.
IntroWalkToHeading(page, cur) ==
    IF cur # NoLoc /\ NodeAt(page, cur).name \notin {"h2", "h3"}
    THEN (IF NodeAt(page, cur).name = "p"
          THEN << Strip(NodeAt(page, cur).text) >> ELSE << >>)
         \o IntroWalkToHeading(page, FindNextSibling(page, cur))
    ELSE << >>

IntroParasToHeading(page) == IntroWalkToHeading(page, Find(page, "p"))

\* intro_paras, starting from content.find('p')
IntroParas(page) == IntroWalk(page, Find(page, "p"))

RECURSIVE SectionWalk(_, _)
\* the while loop under a heading: the paragraphs among the following
\* siblings, up to the next h2/h3 sibling
SectionWalk(page, next_elem) ==
    IF next_elem # NoLoc /\ NodeAt(page, next_elem).name \notin {"h2", "h3"}
    THEN (IF NodeAt(page, next_elem).name = "p"
          THEN << Strip(NodeAt(page, next_elem).text) >> ELSE << >>)
         \o SectionWalk(page, FindNextSibling(page, next_elem))
    ELSE << >>

RECURSIVE SectionWalkAll(_, _)
\* A mutant of SectionContent: the walk does not stop at the next heading.
SectionWalkAll(page, next_elem) ==
    IF next_elem # NoLoc
    THEN (IF NodeAt(page, next_elem).name = "p"
          THEN << Strip(NodeAt(page, next_elem).text) >> ELSE << >>)
         \o SectionWalkAll(page, FindNextSibling(page, next_elem))
    ELSE << >>

SectionContentPastHeading(page, heading) ==
    SectionWalkAll(page, FindNextSibling(page, heading))

\* section_content for one heading
SectionContent(page, heading) ==
    SectionWalk(page, FindNextSibling(page, heading))

\* A mutant of HeadingBody: the paragraphs of a heading go to the bucket
\* 'food_and_dining', which info does not have, when the section is food.
HeadingBodyWrongKey(page, st, heading) ==
    LET section == MapHeading(st.current_section, NodeAt(page, heading).text)
        key     == IF section = "food" THEN "food_and_dining" ELSE section
    IN  IF section = NoSection
        THEN [current_section |-> section, info |-> st.info, raised |-> FALSE]
        ELSE IF key \notin DOMAIN st.info
        THEN [current_section |-> section, info |-> st.info, raised |-> TRUE]
        ELSE [current_section |-> section,
              info |-> [st.info EXCEPT
                          ![key] = @ \o Join(Space, SectionContent(page, heading))],
              raised |-> FALSE]

\* One iteration of `for heading in headings`.  st is the loop's state:
\* the section pointer, info, and whether the body raised (a KeyError on
\* info[current_section]).
HeadingBody(page, st, heading) ==
    LET section == MapHeading(st.current_section, NodeAt(page, heading).text)
    IN  IF section = NoSection
        THEN [current_section |-> section, info |-> st.info, raised |-> FALSE]
        ELSE IF section \notin DOMAIN st.info
        THEN [current_section |-> section, info |-> st.info, raised |-> TRUE]
        ELSE [current_section |-> section,
              info |-> [st.info EXCEPT
                          ![section] = @ \o Join(Space, SectionContent(page, heading))],
              raised |-> FALSE]

RECURSIVE HeadingLoop(_, _, _)
\* the whole for loop, from heading number i on
HeadingLoop(page, st, i) ==
    LET hs == FindAll(page, {"h2", "h3"})
    IN  IF st.raised \/ i > Len(hs) THEN st
        ELSE HeadingLoop(page, HeadingBody(page, st, hs[i]), i + 1)

\* a line printed, a call made: the entries of the trace
Printed(text) == << "print", text >>
Called(name)  == << "call", name >>

\* print(f"Error scraping data: {e}")
E_scrape == Printed("Error scraping data")

\* The whole call: the value returned and the lines printed.
ScrapeDestinationInfo(s) ==
    IF s.kind = "error"
    THEN [ret |-> None, printed |-> << E_scrape >>]
    ELSE IF ~s.has_content
    THEN [ret |-> None, printed |-> << >>]
    ELSE LET st0 == [current_section |-> NoSection,
                     info |-> [InitInfo EXCEPT
                                 !.overview = Join(Space, IntroParas(s.nodes))],
                     raised |-> FALSE]
             st  == HeadingLoop(s.nodes, st0, 1)
         IN  IF st.raised
             THEN [ret |-> None, printed |-> << E_scrape >>]
             ELSE [ret |-> [kind |-> "dict", d |-> st.info], printed |-> << >>]

(***************************************************************************)
(* Pages the extractor is run on.                                          *)
(***************************************************************************)
t_See        == << "S","e","e" >>
t_Understand == << "U","n","d","e","r","s","t","a","n","d" >>
t_History    == << "H","i","s","t","o","r","y" >>
t_Eat        == << "E","a","t" >>
t_Get_around == << "G","e","t"," ","a","r","o","u","n","d" >>

NodeAlphabet ==
    { Tag("p", << "A" >>),
      Tag("p", << " ", NBSP, "B", "\f", "\n" >>),
      Tag("ul", << >>),
      Tag("h2", t_See),
      Tag("h2", t_Understand),
      Tag("h3", t_History),
      Tag("h2", t_Eat),
      Div(<< Tag("h3", t_Get_around), Tag("p", << "C" >>) >>),
      Div(<< Tag("h3", t_History), Tag("p", << "C" >>) >>) }

Pages == UNION { [1..n -> NodeAlphabet] : n \in 0..MaxNodes }

Soups ==
    { [kind |-> "error", has_content |-> FALSE, nodes |-> << >>],
      [kind |-> "page",  has_content |-> FALSE, nodes |-> << >>] }
    \cup { [kind |-> "page", has_content |-> TRUE, nodes |-> p] : p \in Pages }

IdleScrape ==
    /\ soup = [kind |-> "error", has_content |-> FALSE, nodes |-> << >>]
    /\ spc = "idle"
    /\ info = InitInfo
    /\ headings = << >>
    /\ hidx = 1
    /\ current_section = NoSection
    /\ scraped = None

IdleRender ==
    /\ guide_data = None
    /\ destination = ""
    /\ formatted = None

IdlePipe ==
    /\ pc = "idle"
    /\ content = None
    /\ model_response = None

(***************************************************************************)
(* scrape_destination_info, step by step.                                  *)
(***************************************************************************)
InitScrape ==
    /\ soup \in Soups
    /\ spc = "fetch"
    /\ info = InitInfo
    /\ headings = << >>
    /\ hidx = 1
    /\ current_section = NoSection
    /\ scraped = None
    /\ heading_in = << >>
    /\ trace = << >>
    /\ IdleRender
    /\ IdlePipe

\* requests.get, raise_for_status, BeautifulSoup, soup.find of the container,
\* the creation of info
ScrapeFetch ==
    /\ spc = "fetch"
    /\ IF soup.kind = "error"
       THEN /\ spc' = "returned"
            /\ scraped' = None
            /\ trace' = Append(trace, E_scrape)
       ELSE IF ~soup.has_content
       THEN /\ spc' = "returned"
            /\ scraped' = None
            /\ trace' = trace
       ELSE /\ spc' = "overview"
            /\ scraped' = scraped
            /\ trace' = trace
    /\ info' = InitInfo
    /\ UNCHANGED << soup, headings, hidx, current_section, heading_in >>
    /\ UNCHANGED << renderVars, pc, content, model_response >>

\* the overview, then find_all of the headings
ScrapeOverview ==
    /\ spc = "overview"
    /\ info' = [info EXCEPT !.overview = Join(Space, IntroParas(soup.nodes))]
    /\ headings' = FindAll(soup.nodes, {"h2", "h3"})
    /\ hidx' = 1
    /\ current_section' = NoSection
    /\ spc' = "headings"
    /\ UNCHANGED << soup, scraped, heading_in, trace >>
    /\ UNCHANGED << renderVars, pc, content, model_response >>

\* one iteration of the for loop
ScrapeHeading ==
    /\ spc = "headings"
    /\ hidx <= Len(headings)
    /\ LET st == HeadingBody(soup.nodes,
                             [current_section |-> current_section,
                              info |-> info, raised |-> FALSE],
                             headings[hidx])
       IN  /\ current_section' = st.current_section
           /\ info' = st.info
           /\ IF st.raised
              THEN /\ spc' = "returned"
                   /\ scraped' = None
                   /\ trace' = Append(trace, E_scrape)
                   /\ hidx' = hidx
              ELSE /\ spc' = "headings"
                   /\ scraped' = scraped
                   /\ trace' = trace
                   /\ hidx' = hidx + 1
    /\ UNCHANGED << soup, headings, heading_in >>
    /\ UNCHANGED << renderVars, pc, content, model_response >>

\* return info
ScrapeReturn ==
    /\ spc = "headings"
    /\ hidx > Len(headings)
    /\ scraped' = [kind |-> "dict", d |-> info]
    /\ spc' = "returned"
    /\ UNCHANGED << soup, info, headings, hidx, current_section, heading_in, trace >>
    /\ UNCHANGED << renderVars, pc, content, model_response >>

NextScrape == ScrapeFetch \/ ScrapeOverview \/ ScrapeHeading \/ ScrapeReturn

SpecScrape == InitScrape /\ [][NextScrape]_vars

(***************************************************************************)
(* The heading match alone, on heading texts built from words.             *)
(***************************************************************************)
HeadingWords ==
    { t_See, t_Understand, t_History, t_Eat, t_Get_around,
      << "S","I","G","H","T","S" >>,
      << "T","r","a","n","s","p","o","r","t" >>,
      << "f","o","o","d" >>,
      << "T","i","p","s" >>,
      << "T","h","e","a","t","r","e" >>,
      << "É","A","T" >> }

RECURSIVE WordTexts(_)
\* the texts of exactly n words, separated by single spaces
WordTexts(n) ==
    IF n = 0 THEN { << >> }
    ELSE IF n = 1 THEN HeadingWords
    ELSE { w \o Space \o t : w \in HeadingWords, t \in WordTexts(n - 1) }

HeadingTexts == UNION { WordTexts(n) : n \in 0..MaxWords }

Sections == {"attractions", "transportation", "food", "tips"}

InitHeading ==
    /\ heading_in \in HeadingTexts
    /\ current_section \in Sections \cup {NoSection}
    /\ spc = "heading"
    /\ soup = [kind |-> "error", has_content |-> FALSE, nodes |-> << >>]
    /\ info = InitInfo
    /\ headings = << >>
    /\ hidx = 1
    /\ scraped = None
    /\ trace = << >>
    /\ IdleRender
    /\ IdlePipe

\* the if/elif chain on one heading
MatchHeading ==
    /\ spc = "heading"
    /\ current_section' = MapHeading(current_section, heading_in)
    /\ spc' = "matched"
    /\ UNCHANGED << soup, info, headings, hidx, scraped, heading_in, trace >>
    /\ UNCHANGED << renderVars, pc, content, model_response >>

NextHeading == MatchHeading

SpecHeading == InitHeading /\ [][NextHeading]_vars

(***************************************************************************)
(* What the claims about the extractor speak of, stated over the page      *)
(* itself (positions among siblings), not by the walks above.              *)
(***************************************************************************)
SiblingsOf(page, loc) == IF loc[2] = 0 THEN page ELSE page[loc[1]].kids
PosOf(loc)            == IF loc[2] = 0 THEN loc[1] ELSE loc[2]

IsHeadingTag(node) == node.name \in {"h2", "h3"}

\* the stripped texts of the paragraph siblings that follow the tag at loc,
\* up to (not including) its next h2/h3 sibling
ParasUnder(page, loc) ==
    LET sib   == SiblingsOf(page, loc)
        k     == PosOf(loc)
        stops == {j \in (k + 1)..Len(sib) : IsHeadingTag(sib[j])}
        last  == IF stops = {} THEN Len(sib)
                 ELSE (CHOOSE j \in stops : \A m \in stops : j <= m) - 1
        paras == SelectSeq(SubSeq(sib, k + 1, last), LAMBDA n : n.name = "p")
    IN  [i \in 1..Len(paras) |-> Strip(paras[i].text)]

KeywordGroups ==
    << [kws |-> {kw_see, kw_sight},          section |-> "attractions"],
       [kws |-> {kw_get_around, kw_transport}, section |-> "transportation"],
       [kws |-> {kw_eat, kw_food},           section |-> "food"],
       [kws |-> {kw_understand, kw_tips},    section |-> "tips"] >>

\* the keyword groups with a keyword somewhere in the lowercased text
GroupsHit(text) ==
    LET lowered == Lower(text)
    IN  {g \in 1..4 : \E kw \in KeywordGroups[g].kws : Contains(kw, lowered)}

FirstGroupSection(text) ==
    KeywordGroups[CHOOSE g \in GroupsHit(text) :
                    \A h \in GroupsHit(text) : g <= h].section

AtHeading == spc = "headings" /\ hidx <= Len(headings)

HeadingTextAt(i) == NodeAt(soup.nodes, headings[i]).text

\* C6: a heading that matches no keyword leaves the section pointer as it
\* was; its paragraphs are appended to the bucket of the most recently
\* matched heading and no other bucket changes; before any heading has
\* matched it adds nothing to any bucket.
C6_Fallthrough ==
    [][ (AtHeading /\ GroupsHit(HeadingTextAt(hidx)) = {}) =>
          /\ current_section' = current_section
          /\ IF current_section = NoSection
             THEN info' = info
             ELSE /\ info'[current_section] =
                        info[current_section]
                        \o Join(Space, ParasUnder(soup.nodes, headings[hidx]))
                  /\ \A k \in InfoKeys \ {current_section} : info'[k] = info[k]
      ]_vars

\* "History" after "Eat": both processed, the paragraphs of both are in food
C6_Witness ==
    /\ spc = "headings"
    /\ hidx = 3
    /\ HeadingTextAt(1) = t_Eat
    /\ HeadingTextAt(2) = t_History
    /\ current_section = "food"
    /\ ParasUnder(soup.nodes, headings[2]) # << >>
    /\ info.food = Join(Space, ParasUnder(soup.nodes, headings[1]))
                   \o Join(Space, ParasUnder(soup.nodes, headings[2]))
    /\ info.attractions = << >> /\ info.transportation = << >> /\ info.tips = << >>

C7_Step ==
    [][ AtHeading =>
          (current_section' # NoSection =>
              /\ current_section' \in InfoKeys
              /\ info'[current_section'] =
                     info[current_section']
                     \o Join(Space, ParasUnder(soup.nodes, headings[hidx]))
              /\ \A k \in InfoKeys \ {current_section'} : info'[k] = info[k])
      ]_vars

\* the top-level paragraphs at positions lo..hi of the container
ParasBetween(page, lo, hi) ==
    LET paras == SelectSeq(SubSeq(page, lo, hi), LAMBDA n : n.name = "p")
    IN  [i \in 1..Len(paras) |-> Strip(paras[i].text)]

SeeThenUnderstand ==
    /\ Len(headings) = 2
    /\ HeadingTextAt(1) = t_See
    /\ HeadingTextAt(2) = t_Understand

C7_Example ==
    (spc = "returned" /\ scraped # None /\ SeeThenUnderstand) =>
        LET page == soup.nodes
            i    == headings[1][1]
            j    == headings[2][1]
        IN  /\ scraped.d.attractions = Join(Space, ParasBetween(page, i + 1, j - 1))
            /\ scraped.d.tips = Join(Space, ParasBetween(page, j + 1, Len(page)))
            /\ scraped.d.transportation = << >>
            /\ scraped.d.food = << >>

\* C7: under a heading with an active section, exactly the paragraph
\* siblings that follow it up to its next h2/h3 sibling are collected (other
\* siblings are skipped) and appended to the active bucket; on a page with the
\* headings "See" then "Understand" the paragraphs between them are in
\* attractions and those after "Understand" in tips.
C7_Collect == C7_Step /\ []C7_Example

C7_Witness ==
    /\ spc = "returned"
    /\ scraped # None
    /\ SeeThenUnderstand
    /\ scraped.d.attractions # << >>
    /\ scraped.d.tips # << >>

IsText(v) == DOMAIN v = 1..Len(v) /\ \A i \in 1..Len(v) : Len(v[i]) = 1

\* C8: with the content container present the call returns a mapping with
\* exactly the five keys, every value a string; it returns None only when
\* the fetch or parse failed or the container is missing.
C8_FiveKeys ==
    spc = "returned" =>
        /\ (soup.kind = "page" /\ soup.has_content) =>
               /\ scraped # None
               /\ scraped.kind = "dict"
               /\ DOMAIN scraped.d = InfoKeys
               /\ \A k \in InfoKeys : IsText(scraped.d[k])
        /\ scraped = None => (soup.kind = "error" \/ ~soup.has_content)

\* a page with headings and paragraphs returned as five strings, one empty
C8_Witness ==
    /\ spc = "returned"
    /\ soup.has_content
    /\ Len(headings) >= 2
    /\ scraped # None
    /\ DOMAIN scraped.d = InfoKeys
    /\ scraped.d.food # << >>
    /\ scraped.d.tips = << >>

\* positions in document order of the paragraphs / headings of the page
ParaIdx(page) ==
    {i \in 1..Len(DocOrder(page)) : NodeAt(page, DocOrder(page)[i]).name = "p"}
HeadIdx(page) ==
    {i \in 1..Len(DocOrder(page)) : IsHeadingTag(NodeAt(page, DocOrder(page)[i]))}

\* the stripped texts of the paragraphs that come before the first heading
ParasBeforeFirstHeading(page) ==
    LET ord   == DocOrder(page)
        paras == SelectSeq([i \in 1..Len(ord) |-> i],
                           LAMBDA i : /\ i \in ParaIdx(page)
                                      /\ \A h \in HeadIdx(page) : i < h)
    IN  [n \in 1..Len(paras) |-> Strip(NodeAt(page, ord[paras[n]]).text)]

\* C9 as stated: overview is the space-joined text of the paragraphs before
\* the first heading, all of them and none from after a heading.
C9_AsStated ==
    (spc = "returned" /\ scraped # None) =>
        scraped.d.overview = Join(Space, ParasBeforeFirstHeading(soup.nodes))

\* the first paragraph of the container and the paragraph siblings that
\* follow it without a gap
FirstParagraphRun(page) ==
    IF ParaIdx(page) = {} THEN << >>
    ELSE LET first == DocOrder(page)[CHOOSE i \in ParaIdx(page) :
                                       \A j \in ParaIdx(page) : i <= j]
             sib   == SiblingsOf(page, first)
             k     == PosOf(first)
             ends  == {e \in k..Len(sib) : \A j \in k..e : sib[j].name = "p"}
             last  == CHOOSE e \in ends : \A m \in ends : m <= e
         IN  [n \in 1..(last - k + 1) |-> Strip(sib[k + n - 1].text)]

\* C9, amended: overview is the space-joined stripped text of the first
\* paragraph of the container, wherever it stands, and of the paragraph
\* siblings that follow it without a gap; the run ends at the first sibling
\* that is not a paragraph.
C9_FirstRun ==
    (spc = "returned" /\ scraped # None) =>
        scraped.d.overview = Join(Space, FirstParagraphRun(soup.nodes))

\* a page that opens with a heading: the paragraph under it is the overview;
\* and a later paragraph before the next heading, cut off by a list, is not
C9_Witness ==
    /\ spc = "returned"
    /\ scraped # None
    /\ Len(soup.nodes) = 4
    /\ soup.nodes[1].name = "h2"
    /\ soup.nodes[2].name = "p"
    /\ soup.nodes[3].name = "ul"
    /\ soup.nodes[4].name = "p"
    /\ scraped.d.overview = Strip(soup.nodes[2].text)

\* C10: the pointer after a heading is the section of the first keyword
\* group, in the order see/sight, get around/transport, eat/food,
\* understand/tips, that has a keyword anywhere in the lowercased text.
C10_Priority ==
    [][ spc = "heading" =>
          current_section' =
              IF GroupsHit(heading_in) = {} THEN current_section
              ELSE FirstGroupSection(heading_in)
      ]_vars

\* "Eat See": the food keyword comes first in the text, attractions wins
C10_Witness ==
    /\ spc = "matched"
    /\ heading_in = t_Eat \o Space \o t_See
    /\ GroupsHit(heading_in) = {1, 3}
    /\ current_section = "attractions"

\* the sibling at position m among the siblings of the tag at loc
SiblingLoc(loc, m) == IF loc[2] = 0 THEN << m, 0 >> ELSE << loc[1], m >>

\* the locations of the paragraph siblings that follow the tag at loc, up to
\* (not including) its next h2/h3 sibling, nearest first
ParaLocsUnder(page, loc) ==
    LET sib   == SiblingsOf(page, loc)
        k     == PosOf(loc)
        stops == {j \in (k + 1)..Len(sib) : IsHeadingTag(sib[j])}
        last  == IF stops = {} THEN Len(sib)
                 ELSE (CHOOSE j \in stops : \A m \in stops : j <= m) - 1
        pos   == SelectSeq([j \in 1..Len(sib) |-> j],
                           LAMBDA j : j > k /\ j <= last /\ sib[j].name = "p")
    IN  [i \in 1..Len(pos) |-> SiblingLoc(loc, pos[i])]

\* the place of a tag in document order
DocPos(page, loc) ==
    CHOOSE i \in 1..Len(DocOrder(page)) : DocOrder(page)[i] = loc

\* how many headings the loop has gone through
HeadingsDone ==
    IF spc = "headings" THEN hidx - 1
    ELSE IF spc = "returned" /\ scraped # None THEN Len(headings)
    ELSE 0

RECURSIVE AppendLog(_, _, _)
\* one entry for each of the headings i..n that had an active section: the
\* section, and the paragraph nodes appended to its bucket; cur is the
\* section active before heading i
AppendLog(i, cur, n) ==
    IF i > n THEN << >>
    ELSE LET hit == GroupsHit(HeadingTextAt(i))
             sec == IF hit = {} THEN cur ELSE FirstGroupSection(HeadingTextAt(i))
         IN  (IF sec = NoSection THEN << >>
              ELSE << [section |-> sec,
                       locs |-> ParaLocsUnder(soup.nodes, headings[i])] >>)
             \o AppendLog(i + 1, sec, n)

RECURSIVE LocsOf(_, _)
\* the paragraph nodes of the entries of a log that went to bucket k, in
\* the order of the appends
LocsOf(log, k) ==
    IF log = << >> THEN << >>
    ELSE (IF Head(log).section = k THEN Head(log).locs ELSE << >>)
         \o LocsOf(Tail(log), k)

RECURSIVE TextOf(_, _)
\* the text these appends leave in bucket k: the stripped texts of one
\* heading joined by a space, the headings' parts put end to end
TextOf(log, k) ==
    IF log = << >> THEN << >>
    ELSE (IF Head(log).section = k
          THEN Join(Space, [j \in 1..Len(Head(log).locs) |->
                              Strip(NodeAt(soup.nodes, Head(log).locs[j]).text)])
          ELSE << >>)
         \o TextOf(Tail(log), k)

RECURSIVE AllLocs(_)
\* every paragraph node of a log, once for each time it was appended
AllLocs(log) ==
    IF log = << >> THEN << >> ELSE Head(log).locs \o AllLocs(Tail(log))

\* the buckets hold what the appends of the log put there
BucketsAreAppends(log) ==
    \A k \in Sections : info[k] = TextOf(log, k)

\* no paragraph node is appended twice, to one bucket or to two
AppendedAtMostOnce(log) ==
    LET all == AllLocs(log)
    IN  Cardinality({all[a] : a \in 1..Len(all)}) = Len(all)

\* within a bucket a paragraph appended later stands later in the page
AppendedInDocOrder(log) ==
    \A k \in Sections :
      LET locs == LocsOf(log, k)
      IN  \A a \in 1..(Len(locs) - 1) :
            DocPos(soup.nodes, locs[a]) < DocPos(soup.nodes, locs[a + 1])

\* C11: in one call every paragraph node is appended to at most one of the
\* four section buckets and at most once, and within every bucket the
\* collected paragraph texts stand in document order.
C11_OnceInDocOrder ==
    LET log == AppendLog(1, NoSection, HeadingsDone)
    IN  /\ BucketsAreAppends(log)
        /\ AppendedAtMostOnce(log)
        /\ AppendedInDocOrder(log)

\* the part of C11 that the loop keeps on every page: the buckets are the
\* appends, and no paragraph node is appended twice
C11_AtMostOnce ==
    LET log == AppendLog(1, NoSection, HeadingsDone)
    IN  BucketsAreAppends(log) /\ AppendedAtMostOnce(log)

\* a heading inside a block, its paragraph appended after a paragraph that
\* follows the block
C11_OutOfOrder ==
    /\ spc = "returned"
    /\ scraped # None
    /\ Len(soup.nodes) = 3
    /\ soup.nodes[1] = Tag("h2", t_See)
    /\ soup.nodes[2] = Div(<< Tag("h3", t_History), Tag("p", << "C" >>) >>)
    /\ soup.nodes[3] = Tag("p", << "A" >>)
    /\ scraped.d.attractions = << "A", "C" >>

(***************************************************************************)
(* JSON values as json.loads returns them, and Python's str() and repr()   *)
(* of them.  A mapping keeps its entries in insertion order, as a sequence *)
(* of <<key, value>> pairs with distinct keys.  Numbers are integers.  A   *)
(* string holds printable characters of U+0020..U+00FF and the whitespace  *)
(* characters of Whitespace; repr of the other control characters (a       *)
(* \xNN escape) is not in the model.                                       *)
(***************************************************************************)
JS(s)     == [t |-> "str", s |-> s]
JN(n)     == [t |-> "num", n |-> n]
JL(items) == [t |-> "list", items |-> items]
JD(items) == [t |-> "dict", items |-> items]
JNull     == [t |-> "null"]

RECURSIVE JoinStr(_, _)
\* sep.join(parts), on strings
JoinStr(sep, parts) ==
    IF parts = << >> THEN ""
    ELSE IF Len(parts) = 1 THEN parts[1]
    ELSE parts[1] \o sep \o JoinStr(sep, Tail(parts))

\* `sub in s` for str
StrContains(sub, s) ==
    \E i \in 0..(Len(s) - Len(sub)) : SubSeq(s, i + 1, i + Len(sub)) = sub

\* the characters repr writes as an escape, and the escapes
Escaped == << "\\", "\n", "\t", "\r", "\f", VT, FS, GS, RS, US,
              NEL, NBSP, OGHAM >>
Escapes == << "\\\\", "\\n", "\\t", "\\r", "\\x0c", "\\x0b", "\\x1c", "\\x1d",
              "\\x1e", "\\x1f", "\\x85", "\\xa0", "\\u1680" >>

\* one character inside repr of a str written between the quotes `quote`
ReprChar(c, quote) ==
    IF c = quote THEN "\\" \o c
    ELSE IF \E i \in 1..Len(Escaped) : Escaped[i] = c
    THEN Escapes[CHOOSE i \in 1..Len(Escaped) : Escaped[i] = c]
    ELSE c

RECURSIVE ReprBody(_, _, _, _)
\* the characters lo..hi of s, as repr writes them
ReprBody(s, lo, hi, quote) ==
    IF lo > hi THEN ""
    ELSE IF lo = hi THEN ReprChar(SubSeq(s, lo, lo), quote)
    ELSE LET mid == (lo + hi) \div 2
         IN  ReprBody(s, lo, mid, quote) \o ReprBody(s, mid + 1, hi, quote)

\* repr of a str: between double quotes when it holds an apostrophe and no
\* double quote, between apostrophes otherwise
ReprStr(s) ==
    LET quote == IF StrContains("'", s) /\ ~StrContains("\"", s)
                 THEN "\"" ELSE "'"
    IN  quote \o ReprBody(s, 1, Len(s), quote) \o quote

RECURSIVE PyRepr(_)
\* repr(v)
PyRepr(v) ==
    CASE v.t = "str"  -> ReprStr(v.s)
      [] v.t = "num"  -> ToString(v.n)
      [] v.t = "null" -> "None"
      [] v.t = "list" ->
            "[" \o JoinStr(", ", [i \in 1..Len(v.items) |-> PyRepr(v.items[i])])
                \o "]"
      [] v.t = "dict" ->
            "{" \o JoinStr(", ", [i \in 1..Len(v.items) |->
                                    ReprStr(v.items[i][1]) \o ": "
                                        \o PyRepr(v.items[i][2])])
                \o "}"

\* str(v), what an f-string puts for {v}
PyStr(v) == IF v.t = "str" THEN v.s ELSE PyRepr(v)

DictKeysOf(v) == {v.items[i][1] : i \in 1..Len(v.items)}

DictGet(v, key) ==
    v.items[CHOOSE i \in 1..Len(v.items) : v.items[i][1] = key][2]

\* `key in v`: [raised, error, value]
KeyIn(key, v) ==
    CASE v.t = "dict" -> [raised |-> FALSE, error |-> "", value |-> key \in DictKeysOf(v)]
      [] v.t = "list" -> [raised |-> FALSE, error |-> "",
                          value |-> \E i \in 1..Len(v.items) : v.items[i] = JS(key)]
      [] v.t = "str"  -> [raised |-> FALSE, error |-> "",
                          value |-> StrContains(key, v.s)]
      [] OTHER        -> [raised |-> TRUE, error |-> "TypeError", value |-> FALSE]

\* v[key] for a string key: [raised, error, value]
Subscript(v, key) ==
    IF v.t = "dict"
    THEN IF key \in DictKeysOf(v)
         THEN [raised |-> FALSE, error |-> "", value |-> DictGet(v, key)]
         ELSE [raised |-> TRUE, error |-> "KeyError", value |-> JNull]
    ELSE [raised |-> TRUE, error |-> "TypeError", value |-> JNull]

(***************************************************************************)
(* format_guide.  markdown_text is kept as the sequence of the strings     *)
(* appended by the += statements; the document is their concatenation.     *)
(* A section is [raised, error, pieces].                                   *)
(***************************************************************************)
Pieces(ps)  == [raised |-> FALSE, error |-> "", pieces |-> ps]
Raise(e)    == [raised |-> TRUE, error |-> e, pieces |-> << >>]

\* run `first`, then `rest`, stopping at the first exception
Then(first, rest) ==
    IF first.raised THEN first
    ELSE IF rest.raised THEN rest
    ELSE Pieces(first.pieces \o rest.pieces)

TitlePiece(dest) == "# Travel Guide: " \o dest \o "\n\n"

H_overview       == "## Overview\n\n"
H_attractions    == "## Must-See Attractions\n\n"
H_transportation == "## Getting Around\n\n"
H_food           == "## Food & Dining\n\n"
H_tips           == "## Practical Tips\n\n"

Paragraph(v) == PyStr(v) \o "\n\n"
SubHeading(t) == "### " \o t \o "\n"
Bullet(v) == "- " \o PyStr(v) \o "\n"

\* for key, value in mapping.items(): "### key\n" then "value\n\n"
EntryBlocks(v) ==
    [i \in 1..(2 * Len(v.items)) |->
        IF i % 2 = 1 THEN SubHeading(v.items[(i + 1) \div 2][1])
        ELSE Paragraph(v.items[i \div 2][2])]

\* A mutant of OverviewSection: the overview dispatches on a mapping.
OverviewSectionDispatch(overview) ==
    IF overview.t = "dict"
    THEN Pieces(<< H_overview >> \o EntryBlocks(overview))
    ELSE Pieces(<< H_overview, Paragraph(overview) >>)

\* lines 286-288, the key being present
OverviewSection(overview) ==
    Pieces(<< H_overview, Paragraph(overview) >>)

\* lines 296-297 for one attraction
AttractionBlock(attraction) ==
    LET name == Subscript(attraction, "name")
        desc == Subscript(attraction, "description")
    IN  IF name.raised THEN Raise(name.error)
        ELSE IF desc.raised THEN Raise(desc.error)
        ELSE Pieces(<< SubHeading(PyStr(name.value)), Paragraph(desc.value) >>)

RECURSIVE AttractionBlocks(_)
\* the for loop of lines 295-297
AttractionBlocks(items) ==
    IF items = << >> THEN Pieces(<< >>)
    ELSE Then(AttractionBlock(items[1]), AttractionBlocks(Tail(items)))

\* lines 291-299, the key being present
AttractionsSection(attractions) ==
    IF attractions.t = "list"
    THEN Then(Pieces(<< H_attractions >>), AttractionBlocks(attractions.items))
    ELSE Pieces(<< H_attractions, Paragraph(attractions) >>)

\* lines 302-310, the key being present
TransportationSection(transport) ==
    IF transport.t = "dict"
    THEN Pieces(<< H_transportation >> \o EntryBlocks(transport))
    ELSE Pieces(<< H_transportation, Paragraph(transport) >>)

RECURSIVE DiningItems(_)
\* the for loop of lines 317-323
DiningItems(items) ==
    IF items = << >> THEN << >>
    ELSE (IF items[1].t = "dict" THEN EntryBlocks(items[1])
          ELSE << Bullet(items[1]) >>)
         \o DiningItems(Tail(items))

\* lines 313-325, the key being present
DiningSection(dining) ==
    IF dining.t = "list"
    THEN Pieces(<< H_food >> \o DiningItems(dining.items))
    ELSE Pieces(<< H_food, Paragraph(dining) >>)

\* lines 328-335, the key being present
TipsSection(tips) ==
    IF tips.t = "list"
    THEN Pieces(<< H_tips >>
                \o [i \in 1..Len(tips.items) |-> Bullet(tips.items[i])])
    ELSE Pieces(<< H_tips, Paragraph(tips) >>)

\* guide_data[key], or null where the read raises
ValueAt(g, key) == Subscript(g, key).value

\* `if key in guide_data:` and the read of guide_data[key]; `rendered` is
\* the section for the value read; nothing when the key is absent
Section(g, key, rendered) ==
    LET present == KeyIn(key, g)
        value   == Subscript(g, key)
    IN  IF present.raised THEN Raise(present.error)
        ELSE IF ~present.value THEN Pieces(<< >>)
        ELSE IF value.raised THEN Raise(value.error)
        ELSE rendered

\* A mutant of FormatGuide: the tips section is written before the food
\* section.
FormatGuideTipsFirst(g, dest) ==
    LET r == Then(Pieces(<< TitlePiece(dest) >>),
             Then(Section(g, "overview", OverviewSection(ValueAt(g, "overview"))),
             Then(Section(g, "attractions", AttractionsSection(ValueAt(g, "attractions"))),
             Then(Section(g, "transportation", TransportationSection(ValueAt(g, "transportation"))),
             Then(Section(g, "tips", TipsSection(ValueAt(g, "tips"))),
                  Section(g, "food_and_dining", DiningSection(ValueAt(g, "food_and_dining"))))))))
    IN  IF r.raised THEN [kind |-> "raise", error |-> r.error, pieces |-> << >>]
        ELSE [kind |-> "text", error |-> "", pieces |-> r.pieces]

\* format_guide(guide_data, destination): the text returned, or the
\* exception raised
FormatGuide(g, dest) ==
    LET r == Then(Pieces(<< TitlePiece(dest) >>),
             Then(Section(g, "overview", OverviewSection(ValueAt(g, "overview"))),
             Then(Section(g, "attractions", AttractionsSection(ValueAt(g, "attractions"))),
             Then(Section(g, "transportation", TransportationSection(ValueAt(g, "transportation"))),
             Then(Section(g, "food_and_dining", DiningSection(ValueAt(g, "food_and_dining"))),
                  Section(g, "tips", TipsSection(ValueAt(g, "tips"))))))))
    IN  IF r.raised THEN [kind |-> "raise", error |-> r.error, pieces |-> << >>]
        ELSE [kind |-> "text", error |-> "", pieces |-> r.pieces]

(***************************************************************************)
(* Guides the renderer is run on.                                          *)
(***************************************************************************)
GuideKeys == << "overview", "attractions", "transportation",
                "food_and_dining", "tips" >>

\* the string values of the end-to-end scenario
StubText ==
    << JS("X is great."), JS("1. Tower"), JS("Metro"), JS("Cafes"), JS("Be safe") >>

Tower == JD(<< << "name", JS("Tower") >>, << "description", JS("Tall") >> >>)
Bus   == JD(<< << "mode", JS("Bus") >>, << "details", JS("Cheap") >> >>)

Elems == { JS("a"), JN(7), Tower, Bus, JD(<< << "name", JS("Tower") >> >>) }

Lists == { JL(items) : items \in UNION { [1..n -> Elems] : n \in 0..MaxLen } }

EntryKeys == << "Bus", "Metro", "Bike", "Walk", "Taxi" >>
EntryVals == { JS("Cheap"), JN(7), JL(<< Bus >>) }

Dicts ==
    { JD([i \in 1..Len(vals) |-> << EntryKeys[i], vals[i] >>]) :
        vals \in UNION { [1..n -> EntryVals] :
                            n \in 0..(IF MaxLen < 5 THEN MaxLen ELSE 5) } }

Rich == Lists \cup Dicts \cup { JN(7), JNull }

\* the response recorded in the notebook output (every value is a mapping),
\* without the fourth of its top_sights, whose text has a character of
\* U+0153
ParisGuide ==
    JD(<< << "overview",
             JD(<< << "title",
                      JS("Paris, the City of Light") >>,
                   << "description",
                      JS("Paris, often referred to as 'The City of Light', is a world-renowned capital that combines history with modernity. It's famous for its iconic landmarks like the Eiffel Tower and Notre-Dame Cathedral, as well as its rich cultural heritage and artistic contributions.") >> >>) >>,
          << "attractions",
             JD(<< << "top_sights",
                      JL(<< JD(<< << "name",
                                     JS("Eiffel Tower") >>,
                                  << "description",
                                     JS("A symbol of Paris with stunning views from its top floors.") >> >>),
                            JD(<< << "name",
                                     JS("Louvre Museum") >>,
                                  << "description",
                                     JS("Home to the Mona Lisa, this museum is one of the largest in the world.") >> >>),
                            JD(<< << "name",
                                     JS("Notre-Dame Cathedral") >>,
                                  << "description",
                                     JS("An iconic Gothic masterpiece that has been a center for worship and culture for centuries.") >> >>),
                            JD(<< << "name",
                                     JS("Champs-Élysées") >>,
                                  << "description",
                                     JS("A famous avenue lined with luxury shops, cafes, and theaters ending at the Arc de Triomphe.") >> >>) >>) >> >>) >>,
          << "transportation",
             JD(<< << "options",
                      JL(<< JD(<< << "mode",
                                     JS("Public Transportation") >>,
                                  << "details",
                                     JS("Paris has an extensive network of buses, metro lines (RER), and suburban trains that cover most areas of the city.") >> >>),
                            JD(<< << "mode",
                                     JS("Biking") >>,
                                  << "details",
                                     JS("The Vélib' bike-sharing system allows visitors to explore Paris on two wheels.") >> >>),
                            JD(<< << "mode",
                                     JS("Walking") >>,
                                  << "details",
                                     JS("Paris is designed for walking with many pedestrian zones, making it easy to navigate and enjoy its architecture.") >> >>),
                            JD(<< << "mode",
                                     JS("Taxis and Ride-Sharing") >>,
                                  << "details",
                                     JS("Uber, Lyft alternatives, and traditional taxis are readily available in the city.") >> >>) >>) >>,
                   << "tips",
                      JL(<< JD(<< << "title",
                                     JS("Plan your route") >>,
                                  << "description",
                                     JS("Use maps or apps like Google Maps to plan routes ahead of time.") >> >>),
                            JD(<< << "title",
                                     JS("Avoid rush hour") >>,
                                  << "description",
                                     JS("Traffic can be heavy during peak hours, especially on weekdays from 7-9am and 5-8pm.") >> >>) >>) >> >>) >>,
          << "food_and_dining",
             JD(<< << "recommendations",
                      JL(<< JD(<< << "name",
                                     JS("Bistros and Cafés") >>,
                                  << "description",
                                     JS("Parisian bistros offer classic French cuisine in a casual setting.") >> >>),
                            JD(<< << "name",
                                     JS("Pâtisseries") >>,
                                  << "description",
                                     JS("Indulge in pastries like croissants, macarons, and eclairs from famous bakeries.") >> >>),
                            JD(<< << "name",
                                     JS("Street Food") >>,
                                  << "description",
                                     JS("Discover street food markets for local delicacies and snacks.") >> >>),
                            JD(<< << "name",
                                     JS("Wine Bars") >>,
                                  << "description",
                                     JS("Savor French wines paired with cheese or charcuterie at wine bars.") >> >>) >>) >>,
                   << "local_favorites",
                      JL(<< JD(<< << "name",
                                     JS("Crêperies") >>,
                                  << "description",
                                     JS("Try traditional crêpes filled with sweet or savory ingredients.") >> >>),
                            JD(<< << "name",
                                     JS("Bread Shops") >>,
                                  << "description",
                                     JS("Visit artisanal bakeries for freshly baked baguettes and pastries.") >> >>) >>) >> >>) >>,
          << "tips",
             JD(<< << "general_tips",
                      JL(<< JD(<< << "title",
                                     JS("Get a Paris Pass") >>,
                                  << "description",
                                     JS("The Paris Pass offers free or discounted entry to many attractions and includes unlimited travel on public transport.") >> >>),
                            JD(<< << "title",
                                     JS("Visit during off-peak times") >>,
                                  << "description",
                                     JS("Avoid the crowds by visiting popular sites early in the morning or late afternoon.") >> >>),
                            JD(<< << "title",
                                     JS("Use public transportation") >>,
                                  << "description",
                                     JS("Paris' efficient public transport system is an excellent way to explore the city without a car.") >> >>) >>) >>,
                   << "safety_and_security",
                      JL(<< JD(<< << "title",
                                     JS("Be aware of pickpockets") >>,
                                  << "description",
                                     JS("Keep your belongings secure, especially in crowded areas like tourist sites and on public transportation.") >> >>),
                            JD(<< << "title",
                                     JS("Stay informed about local events") >>,
                                  << "description",
                                     JS("Check for any city-wide events that may affect travel or crowds.") >> >>) >>) >> >>) >> >>)

\* the mapping with the keys of `present`, in the order of GuideKeys, the
\* value of key number i being val[i]
GuideOf(present, val) ==
    LET idx == SelectSeq([i \in 1..5 |-> i], LAMBDA i : i \in present)
    IN  JD([n \in 1..Len(idx) |-> << GuideKeys[idx[n]], val[idx[n]] >>])

Destinations == { "X", "Paris" }

\* what json.loads gives for a JSON string: no key name in it, one, all five
StringGuides ==
    { JS("abc"), JS("tips"),
      JS("overview attractions transportation food_and_dining tips") }

\* The guides: every subset of the keys with the stub strings; the same
\* with one value replaced by a value that is no string; the response
\* recorded in the notebook; and the JSON strings.
InitRender ==
    /\ \/ \E present \in SUBSET (1..5) :
              guide_data = GuideOf(present, StubText)
       \/ \E k \in 1..5, v \in Rich :
              \E present \in { p \in SUBSET (1..5) : k \in p } :
                  guide_data = GuideOf(present, [StubText EXCEPT ![k] = v])
       \/ guide_data = ParisGuide
       \/ guide_data \in StringGuides
    /\ destination \in Destinations
    /\ formatted = None
    /\ IdleScrape
    /\ heading_in = << >>
    /\ IdlePipe
    /\ trace = << >>

\* the call format_guide(guide_data, destination)
CallFormatGuide ==
    /\ formatted = None
    /\ pc = "idle"
    /\ formatted' = FormatGuide(guide_data, destination)
    /\ UNCHANGED << guide_data, destination, scrapeVars, heading_in, pipeVars >>

NextRender == CallFormatGuide

SpecRender == InitRender /\ [][NextRender]_vars

(***************************************************************************)
(* What the claims about the renderer speak of: the document returned,     *)
(* its section headers and the text under each header.                     *)
(***************************************************************************)
\* format_guide has run, on a guide that is a mapping
Ran == formatted # None /\ guide_data.t = "dict"

\* the pieces of the document returned; none when the call raised
Doc == IF formatted.kind = "text" THEN formatted.pieces ELSE << >>

HeaderSeq == << H_overview, H_attractions, H_transportation, H_food, H_tips >>
HeaderSet == { HeaderSeq[i] : i \in 1..5 }

Present(i) == guide_data.t = "dict" /\ GuideKeys[i] \in DictKeysOf(guide_data)
ValueOf(i) == DictGet(guide_data, GuideKeys[i])

\* the section headers of the document, in the order they stand in it
HeadersIn(doc) == SelectSeq(doc, LAMBDA piece : piece \in HeaderSet)

\* the headers of the keys the guide has, in the fixed order
ExpectedHeaders ==
    LET idx == SelectSeq([i \in 1..5 |-> i], LAMBDA i : Present(i))
    IN  [n \in 1..Len(idx) |-> HeaderSeq[idx[n]]]

\* what stands in the document between the header of key i and the next
\* section header (or the end)
SectionOf(doc, i) ==
    LET at    == CHOOSE n \in 1..Len(doc) : doc[n] = HeaderSeq[i]
        later == {n \in (at + 1)..Len(doc) : doc[n] \in HeaderSet}
        last  == IF later = {} THEN Len(doc)
                 ELSE (CHOOSE n \in later : \A m \in later : n <= m) - 1
    IN  SubSeq(doc, at + 1, last)

RECURSIVE Flatten(_)
Flatten(seqs) == IF seqs = << >> THEN << >> ELSE seqs[1] \o Flatten(Tail(seqs))

Verbatim(v) == << PyStr(v) \o "\n\n" >>

\* one labeled block per entry of a mapping: the key as heading, the value
\* as body
LabeledBlocks(v) ==
    Flatten([i \in 1..Len(v.items) |->
               << "### " \o v.items[i][1] \o "\n", PyStr(v.items[i][2]) \o "\n\n" >>])

HasNameAndDescription(e) ==
    e.t = "dict" /\ {"name", "description"} \subseteq DictKeysOf(e)

NamedBlock(e) ==
    << "### " \o PyStr(DictGet(e, "name")) \o "\n",
       PyStr(DictGet(e, "description")) \o "\n\n" >>

AllStrings == \A i \in 1..5 : Present(i) => ValueOf(i).t = "str"

\* C1: format_guide never raises, whatever well-formed JSON values the five
\* keys hold.
C1_NeverRaises == Ran => formatted.kind = "text"

\* C3: the document opens with the title line, then holds exactly one
\* section header per key the guide has, in the fixed order, each followed
\* by the content of its key; an absent key has no header; with string
\* values each header is followed by the string itself.
C3_HeadersInOrder ==
    Ran =>
        /\ Doc # << >>
        /\ Doc[1] = "# Travel Guide: " \o destination \o "\n\n"
        /\ HeadersIn(Doc) = ExpectedHeaders
        /\ AllStrings =>
               \A i \in 1..5 : Present(i) => SectionOf(Doc, i) = Verbatim(ValueOf(i))

\* Whenever format_guide returns, the document is as C3 says: C3 fails only
\* where the call raises.
C3_WhenReturned ==
    (Ran /\ formatted.kind = "text") =>
        /\ Doc[1] = "# Travel Guide: " \o destination \o "\n\n"
        /\ HeadersIn(Doc) = ExpectedHeaders
        /\ ~Present(5) => \A n \in 1..Len(Doc) : Doc[n] # H_tips
        /\ AllStrings =>
               \A i \in 1..5 : Present(i) => SectionOf(Doc, i) = Verbatim(ValueOf(i))

\* C4 as stated: one policy for all five keys.  A mapping is rendered as one
\* labeled block per entry, a sequence element by element (so not as the
\* one verbatim paragraph), anything else verbatim.
C4_UniformDispatch ==
    (Ran /\ formatted.kind = "text") =>
        \A i \in 1..5 : Present(i) =>
            CASE ValueOf(i).t = "dict" -> SectionOf(Doc, i) = LabeledBlocks(ValueOf(i))
              [] ValueOf(i).t = "list" -> SectionOf(Doc, i) # Verbatim(ValueOf(i))
              [] OTHER                 -> SectionOf(Doc, i) = Verbatim(ValueOf(i))

\* C4, amended: each key has its own dispatch.
\*   overview: verbatim, whatever the shape;
\*   attractions: a sequence element by element, each element read as a
\*     mapping with name and description (heading and body), and the call
\*     raises when an element is not one; anything else verbatim;
\*   transportation: a mapping as one labeled block per entry; anything
\*     else, a sequence too, verbatim;
\*   food_and_dining: a sequence element by element, a mapping element as
\*     one labeled block per entry and any other element as a bullet line;
\*     anything else, a mapping too, verbatim;
\*   tips: a sequence as one bullet line per element; anything else, a
\*     mapping too, verbatim.
C4_PerKeyDispatch ==
    Ran =>
        /\ formatted.kind = "raise" <=>
               /\ Present(2)
               /\ ValueOf(2).t = "list"
               /\ \E n \in 1..Len(ValueOf(2).items) :
                      ~HasNameAndDescription(ValueOf(2).items[n])
        /\ formatted.kind = "text" =>
               /\ Present(1) => SectionOf(Doc, 1) = Verbatim(ValueOf(1))
               /\ Present(2) =>
                      SectionOf(Doc, 2) =
                          IF ValueOf(2).t = "list"
                          THEN Flatten([n \in 1..Len(ValueOf(2).items) |->
                                          NamedBlock(ValueOf(2).items[n])])
                          ELSE Verbatim(ValueOf(2))
               /\ Present(3) =>
                      SectionOf(Doc, 3) =
                          IF ValueOf(3).t = "dict" THEN LabeledBlocks(ValueOf(3))
                          ELSE Verbatim(ValueOf(3))
               /\ Present(4) =>
                      SectionOf(Doc, 4) =
                          IF ValueOf(4).t = "list"
                          THEN Flatten([n \in 1..Len(ValueOf(4).items) |->
                                  IF ValueOf(4).items[n].t = "dict"
                                  THEN LabeledBlocks(ValueOf(4).items[n])
                                  ELSE << "- " \o PyStr(ValueOf(4).items[n]) \o "\n" >>])
                          ELSE Verbatim(ValueOf(4))
               /\ Present(5) =>
                      SectionOf(Doc, 5) =
                          IF ValueOf(5).t = "list"
                          THEN [n \in 1..Len(ValueOf(5).items) |->
                                  "- " \o PyStr(ValueOf(5).items[n]) \o "\n"]
                          ELSE Verbatim(ValueOf(5))

\* the recorded response: the mapping under overview is one paragraph, the
\* mapping under transportation is two labeled blocks
C4_Witness ==
    /\ Ran
    /\ guide_data = ParisGuide
    /\ formatted.kind = "text"
    /\ SectionOf(Doc, 1) = Verbatim(ValueOf(1))
    /\ Len(SectionOf(Doc, 3)) = 4
    /\ SectionOf(Doc, 3)[1] = "### options\n"

\* C5: for attractions a sequence of mappings, an element with name and
\* description is a sub-heading with the name and a paragraph with the
\* description, and an element without them is a bullet line with the
\* mapping's textual form; the call does not fail.
C5_FallbackBullet ==
    (Ran /\ Present(2) /\ ValueOf(2).t = "list"
         /\ \A n \in 1..Len(ValueOf(2).items) : ValueOf(2).items[n].t = "dict") =>
        /\ formatted.kind = "text"
        /\ SectionOf(Doc, 2) =
               Flatten([n \in 1..Len(ValueOf(2).items) |->
                          IF HasNameAndDescription(ValueOf(2).items[n])
                          THEN NamedBlock(ValueOf(2).items[n])
                          ELSE << "- " \o PyRepr(ValueOf(2).items[n]) \o "\n" >>])

(***************************************************************************)
(* generate_guide: the chat completion call, json.loads, the key check.    *)
(* A response is a request that failed, a completion whose content is not  *)
(* JSON, or a completion whose content decodes to a JSON value.            *)
(***************************************************************************)
RequestError     == [kind |-> "request_error", value |-> JNull]
Malformed        == [kind |-> "malformed", value |-> JNull]
Decoded(v)       == [kind |-> "json", value |-> v]

\* [key for key in required_keys if key not in result], the tests having
\* raised nothing
MissingKeys(result) ==
    SelectSeq(GuideKeys, LAMBDA key : ~KeyIn(key, result).value)

\* A mutant of GenerateGuide: the decoded value is returned without the
\* test for missing keys.
GenerateGuideNoKeyCheck(response) ==
    IF response.kind = "request_error"
    THEN [ret |-> None, printed |-> << Printed("Error generating guide") >>]
    ELSE IF response.kind = "malformed"
    THEN [ret |-> None,
          printed |-> << Printed("JSON parsing error"), Printed("Problematic content:"),
                         Printed("<content>") >>]
    ELSE [ret |-> response.value, printed |-> << >>]

\* generate_guide(destination, content): the value returned and the lines
\* printed
GenerateGuide(response) ==
    IF response.kind = "request_error"
    THEN [ret |-> None, printed |-> << Printed("Error generating guide") >>]
    ELSE IF response.kind = "malformed"
    THEN [ret |-> None,
          printed |-> << Printed("JSON parsing error"), Printed("Problematic content:"),
                         Printed("<content>") >>]
    ELSE LET result == response.value
         IN  IF \E i \in 1..5 : KeyIn(GuideKeys[i], result).raised
             THEN [ret |-> None, printed |-> << Printed("Error generating guide") >>]
             ELSE IF MissingKeys(result) # << >>
             THEN [ret |-> None, printed |-> << Printed("Missing required keys") >>]
             ELSE [ret |-> result, printed |-> << >>]

(***************************************************************************)
(* create_travel_guide                                                     *)
(***************************************************************************)
\* bool(content) for what scrape_destination_info returns
ContentTruthy(c) == c # None /\ DOMAIN c.d # {}

\* bool(guide_data) for what generate_guide returns
GuideTruthy(g) ==
    /\ g # None
    /\ CASE g.t \in {"dict", "list"} -> g.items # << >>
         [] g.t = "str"  -> g.s # ""
         [] g.t = "num"  -> g.n # 0
         [] OTHER        -> FALSE

PipeSoups ==
    { [kind |-> "error", has_content |-> FALSE, nodes |-> << >>],
      [kind |-> "page",  has_content |-> FALSE, nodes |-> << >>],
      [kind |-> "page",  has_content |-> TRUE,  nodes |-> << >>],
      [kind |-> "page",  has_content |-> TRUE,
       nodes |-> << Tag("p", << "A" >>), Tag("h2", t_See), Tag("p", << "A" >>),
                    Tag("h2", t_Understand), Tag("p", << " ", "B", "\n" >>) >>] }

ExtraKeyGuide ==
    JD(GuideOf(1..5, StubText).items \o << << "sources", JL(<< >>) >> >>)

Responses ==
    { RequestError, Malformed }
    \cup { Decoded(GuideOf(present, StubText)) : present \in SUBSET (1..5) }
    \cup { Decoded(v) :
             v \in StringGuides \cup
                   { JN(7), JNull, JL(<< >>),
                     JL([i \in 1..5 |-> JS(GuideKeys[i])]),
                     ParisGuide, ExtraKeyGuide,
                     GuideOf(1..5, [StubText EXCEPT ![2] = JL(<< Tower >>)]),
                     GuideOf(1..5, [StubText EXCEPT ![2] = JL(<< Bus >>)]) } }

Init ==
    /\ soup \in PipeSoups
    /\ destination \in Destinations
    /\ pc = "start"
    /\ content = None
    /\ model_response = None
    /\ guide_data = None
    /\ formatted = None
    /\ trace = << >>
    /\ spc = "idle"
    /\ info = InitInfo
    /\ headings = << >>
    /\ hidx = 1
    /\ current_section = NoSection
    /\ scraped = None
    /\ heading_in = << >>

pipeIdle == << spc, info, headings, hidx, current_section, scraped, heading_in >>

\* lines 357-361: the scrape and the test of its result
StepScrape ==
    /\ pc = "start"
    /\ LET r == ScrapeDestinationInfo(soup)
       IN  /\ content' = r.ret
           /\ trace' = trace
                  \o << Printed("Scraping information for " \o destination \o "..."),
                        Called("scrape_destination_info") >>
                  \o r.printed
                  \o (IF ContentTruthy(r.ret) THEN << >>
                      ELSE << Printed("Failed to scrape content") >>)
           /\ pc' = IF ContentTruthy(r.ret) THEN "generate" ELSE "done"
    /\ UNCHANGED << soup, destination, model_response, guide_data, formatted >>
    /\ UNCHANGED pipeIdle

\* lines 363-367: the model call and the test of its result
StepGenerate ==
    /\ pc = "generate"
    /\ \E response \in Responses :
          LET r == GenerateGuide(response)
          IN  /\ model_response' = response
              /\ guide_data' = r.ret
              /\ trace' = trace
                     \o << Printed("Generating guide..."), Called("chat.completions.create") >>
                     \o r.printed
                     \o (IF GuideTruthy(r.ret) THEN << >>
                         ELSE << Printed("Failed to generate guide") >>)
              /\ pc' = IF GuideTruthy(r.ret) THEN "format" ELSE "done"
    /\ UNCHANGED << soup, destination, content, formatted >>
    /\ UNCHANGED pipeIdle

\* line 369: format_guide; an exception it raises leaves create_travel_guide
StepFormat ==
    /\ pc = "format"
    /\ formatted' = FormatGuide(guide_data, destination)
    /\ trace' = Append(trace, Called("format_guide"))
    /\ pc' = IF formatted'.kind = "raise" THEN "raised" ELSE "display"
    /\ UNCHANGED << soup, destination, content, model_response, guide_data >>
    /\ UNCHANGED pipeIdle

\* line 370: display(Markdown(markdown_guide))
StepDisplay ==
    /\ pc = "display"
    /\ trace' = Append(trace, Called("display"))
    /\ pc' = "done"
    /\ UNCHANGED << soup, destination, content, model_response, guide_data, formatted >>
    /\ UNCHANGED pipeIdle

Next == StepScrape \/ StepGenerate \/ StepFormat \/ StepDisplay

Spec == Init /\ [][Next]_vars

(***************************************************************************)
(* What the claim about create_travel_guide speaks of.                     *)
(***************************************************************************)
Occurrences(e) == {n \in 1..Len(trace) : trace[n] = e}
Happened(e)    == Occurrences(e) # {}
Before(e, f)   == \A n \in Occurrences(f) : \E m \in Occurrences(e) : m < n

ev_scrape  == Called("scrape_destination_info")
ev_model   == Called("chat.completions.create")
ev_format  == Called("format_guide")
ev_display == Called("display")

ScrapeFails == soup.kind = "error" \/ ~soup.has_content

\* a request error, content that is no JSON, or a decoded mapping or
\* string without one of the five keys
GenerateFails ==
    /\ model_response # None
    /\ \/ model_response.kind \in {"request_error", "malformed"}
       \/ /\ model_response.kind = "json"
          /\ \/ /\ model_response.value.t = "dict"
                /\ \E i \in 1..5 :
                      GuideKeys[i] \notin DictKeysOf(model_response.value)
             \/ /\ model_response.value.t = "str"
                /\ \E i \in 1..5 :
                      \A n \in 1..(Len(model_response.value.s)
                                   - Len(GuideKeys[i]) + 1) :
                        SubSeq(model_response.value.s, n,
                               n + Len(GuideKeys[i]) - 1) # GuideKeys[i]

\* C2: scrape, model call and render happen in that order and at most once
\* each; when the scrape returns None the model is not called and nothing is
\* rendered; when generate_guide fails nothing is rendered; in both cases
\* the diagnostic is the last line printed and the call has ended.
C2_TerminalFailures ==
    /\ \A e \in {ev_scrape, ev_model, ev_format, ev_display} :
           Cardinality(Occurrences(e)) <= 1
    /\ Before(ev_scrape, ev_model)
    /\ Before(ev_model, ev_format)
    /\ Before(ev_format, ev_display)
    /\ (pc # "start" /\ ScrapeFails) =>
           /\ pc = "done"
           /\ content = None
           /\ ~Happened(ev_model) /\ ~Happened(ev_format) /\ ~Happened(ev_display)
           /\ trace[Len(trace)] = Printed("Failed to scrape content")
    /\ GenerateFails =>
           /\ pc = "done"
           /\ guide_data = None
           /\ ~Happened(ev_format) /\ ~Happened(ev_display)
           /\ trace[Len(trace)] = Printed("Failed to generate guide")
    /\ Happened(ev_format) => (content # None /\ guide_data # None)

\* the scrape succeeded, the model's mapping lacks tips: the call ended
\* after the diagnostic, nothing rendered
C2_Witness ==
    /\ pc = "done"
    /\ content # None
    /\ model_response = Decoded(GuideOf(1..4, StubText))
    /\ Happened(ev_model)
    /\ ~Happened(ev_format)
    /\ trace[Len(trace)] = Printed("Failed to generate guide")

====
